---- MODULE Spec2Model ----
(***************************************************************************)
(* SENTINEL i-Score engine (src/models/risk_scoring.py): the five          *)
(* rule-based scorers as operators over fixed-point numbers, and the       *)
(* predictive extension (train / predict / save / load) as a state machine *)
(* over the engine's fields and the artifact store.                        *)
(*                                                                         *)
(* Numbers.  Python floats are modelled as exact fixed-point integers:     *)
(*   a fraction x in [0,1]  is the integer x * FR   (1.0 = FR),            *)
(*   a score of p points    is the integer p * PT   (100 points = 100*PT). *)
(* Input grids are chosen so that the divisions the code makes are exact   *)
(* (or off by at most one unit) at this resolution.                        *)
(***************************************************************************)
EXTENDS Integers, Sequences, FiniteSets, TLC

FR == 100000
PT == 1000

\* Python's None carried as the value of a key that is present.
None == -999999
\* numpy's nan (the mean of an empty list).
NaN == -888888

Min2(a, b) == IF a <= b THEN a ELSE b
Max2(a, b) == IF a >= b THEN a ELSE b

\* min(100, max(0, x)) on a score in units of PT.
Clamp100(x) == Min2(100 * PT, Max2(0, x))

\* Mutant of ToPoints: the fraction handed out without the scaling by 100.
FractionAsPoints(f) == f \div 100

\* fraction * 100, as a score.
ToPoints(f) == f * ((100 * PT) \div FR)

\* dict.get(k, default): the default only when the key is absent.
Get(d, k, default) == IF k \in DOMAIN d THEN d[k] ELSE default

\* Outcome of a function body: a returned value or a raised exception.
Ret(v) == [exc |-> FALSE, val |-> v]
Raise == [exc |-> TRUE, val |-> 0]

\* Mutant of CatchAll: no except clause, the exception leaves the function.
CatchNone(r, fallback) == r

\* try: body / except Exception: return fallback
CatchAll(r, fallback) == IF r.exc THEN Ret(fallback) ELSE r

(***************************************************************************)
(* Normalisation helpers.                                                  *)
(***************************************************************************)
RECURSIVE Pow10(_)
Pow10(k) == IF k = 0 THEN 1 ELSE 10 * Pow10(k - 1)

RECURSIVE ILog10(_)
ILog10(n) == IF n < 10 THEN 0 ELSE 1 + ILog10(n \div 10)

\* log10(1 + v) * FR for v >= 0: exact at powers of ten, linear in between.
Log1pScaled(v) ==
    LET n == 1 + v
        k == ILog10(n)
        p == Pow10(k)
        frac == IF p >= FR THEN ((n - p) \div (p \div FR)) \div 9
                ELSE ((n - p) * (FR \div p)) \div 9
    IN  k * FR + frac

\* np.log1p(v) / np.log1p(ref), as a fraction.
LogScale(v, ref) == (Log1pScaled(v) * 1000) \div (Log1pScaled(ref) \div 100)

\* 100 / (1 + exp(-z)) in units of PT at z = -8 .. 8.
SigTab == <<34, 91, 247, 669, 1799, 4743, 11920, 26894, 50000,
            73106, 88080, 95257, 98201, 99331, 99753, 99909, 99966>>

\* Mutant of Sigmoid: a hard threshold at 50 in place of the smooth scaling.
SigmoidStep(total) == IF total >= 50 * PT THEN 100 * PT ELSE 0

\* 100 / (1 + np.exp(-(total - 50) / 10)): tabulated at integer z,
\* linear in between, flat beyond |z| = 8.
Sigmoid(total) ==
    LET x == total - 50 * PT
        k == x \div (10 * PT)
        r == x % (10 * PT)
    IN  IF k < -8 THEN SigTab[1]
        ELSE IF k >= 8 THEN SigTab[17]
        ELSE SigTab[k + 9] + ((SigTab[k + 10] - SigTab[k + 9]) * r) \div (10 * PT)

(***************************************************************************)
(* settings.RISK_SCORE_WEIGHTS, in percent (0.25 = 25).                    *)
(***************************************************************************)
RISK_SCORE_WEIGHTS == [geopolitical |-> 25, economic |-> 20, regulatory |-> 10]

(***************************************************************************)
(* calculate_country_risk_score                                            *)
(***************************************************************************)
CountryBody(weights, cd) ==
    LET ps  == Get(cd, "political_stability_index", 50)
        ef  == Get(cd, "economic_freedom_index", 50)
        ci  == Get(cd, "corruption_perception_index", 50)
        gdp == Get(cd, "gdp_usd", 0)
        pop == Get(cd, "population", 1)
    IN  IF None \in {ps, ef, ci, gdp, pop} THEN Raise
        ELSE
        LET political_stability == (ps * FR) \div 100
            economic_freedom == (ef * FR) \div 100
            corruption_index == (ci * FR) \div 100
            gdp_per_capita == gdp \div Max2(pop, 1)
            gdp_per_capita_normalized == LogScale(gdp_per_capita, 100000)
            political_risk == ((FR - political_stability) * weights.geopolitical) \div 100
            economic_risk == ((FR - economic_freedom) * weights.economic) \div 100
            corruption_risk == ((FR - corruption_index) * weights.regulatory) \div 100
            development_risk == ((FR - gdp_per_capita_normalized) * weights.economic) \div 100
            total_risk == ToPoints(political_risk + economic_risk
                                   + corruption_risk + development_risk)
            risk_score == Sigmoid(total_risk)
        IN  Ret(Clamp100(risk_score))

calculate_country_risk_score(weights, cd) ==
    CatchAll(CountryBody(weights, cd), 50 * PT)

(***************************************************************************)
(* calculate_supplier_risk_score                                           *)
(***************************************************************************)
\* Mutant of TierRisk: the deepest tier contributes nothing, tier 1 the most.
TierRiskInverted(tier) == ((((6 - tier) * FR) \div 5) * 3) \div 10

\* (tier - 1) / 5 * 0.3, as a fraction.
TierRisk(tier) == ((((tier - 1) * FR) \div 5) * 3) \div 10

SupplierBody(sd, country_risk) ==
    LET fh   == Get(sd, "financial_health_score", 50)
        cy   == Get(sd, "cyber_risk_score", 50)
        op   == Get(sd, "operational_risk_score", 50)
        tier == Get(sd, "tier", 1)
        revenue == Get(sd, "annual_revenue", 1000000)
    IN  IF None \in {fh, cy, op, tier, revenue, country_risk} THEN Raise
        ELSE
        LET financial_health == (fh * FR) \div 100
            cyber_risk == (cy * FR) \div 100
            operational_risk == (op * FR) \div 100
            tier_risk == TierRisk(tier)
            country_risk_normalized == (country_risk * FR) \div 100
            financial_risk == ((FR - financial_health) * 4) \div 10
            cyber_risk_score == (cyber_risk * 3) \div 10
            operational_risk_score == (operational_risk * 3) \div 10
            overall_risk == ToPoints((financial_risk * 3) \div 10
                                     + (cyber_risk_score * 2) \div 10
                                     + (operational_risk_score * 2) \div 10
                                     + (country_risk_normalized * 2) \div 10
                                     + (tier_risk * 1) \div 10)
        IN  Ret([financial_risk |-> ToPoints(financial_risk),
                 cyber_risk |-> ToPoints(cyber_risk_score),
                 operational_risk |-> ToPoints(operational_risk_score),
                 country_risk |-> country_risk * PT,
                 tier_risk |-> ToPoints(tier_risk),
                 overall_risk |-> Clamp100(overall_risk)])

\* Mutant of SupplierFallback: country_risk replaced by the neutral 50 like
\* the other entries, not echoed.
SupplierFallbackNoEcho(country_risk) ==
    [financial_risk |-> 50 * PT,
     cyber_risk |-> 50 * PT,
     operational_risk |-> 50 * PT,
     country_risk |-> 50 * PT,
     tier_risk |-> 20 * PT,
     overall_risk |-> 50 * PT]

SupplierFallback(country_risk) ==
    [financial_risk |-> 50 * PT,
     cyber_risk |-> 50 * PT,
     operational_risk |-> 50 * PT,
     country_risk |-> IF country_risk = None THEN None ELSE country_risk * PT,
     tier_risk |-> 20 * PT,
     overall_risk |-> 50 * PT]

\* Mutant of calculate_supplier_risk_score: the revenue takes part in the
\* outcome (a supplier without revenue is given the fixed breakdown).
SupplierRiskByRevenue(sd, country_risk) ==
    IF Get(sd, "annual_revenue", 1000000) = 0 THEN Ret(SupplierFallback(country_risk))
    ELSE CatchAll(SupplierBody(sd, country_risk), SupplierFallback(country_risk))

calculate_supplier_risk_score(sd, country_risk) ==
    CatchAll(SupplierBody(sd, country_risk), SupplierFallback(country_risk))

(***************************************************************************)
(* calculate_trade_route_risk_score                                        *)
(***************************************************************************)
\* Mutant of TypeMultiplier: the sea and air multipliers exchanged.
TypeMultiplierSwapped(route_type) ==
    CASE route_type = "sea" -> 8
      [] route_type = "air" -> 12
      [] route_type = "land" -> 10
      [] OTHER -> 10

\* Mutant of NormCap: v / ref without the cap at 1.0.
NormUncapped(v, ref) == (v \div ref) * FR + ((v % ref) * FR) \div ref

\* min(1.0, v / ref), as a fraction.
NormCap(v, ref) == IF v >= ref THEN FR ELSE (v * FR) \div ref

\* type_multipliers.get(route_type, 1.0), in tenths.
TypeMultiplier(route_type) ==
    CASE route_type = "sea" -> 12
      [] route_type = "air" -> 8
      [] route_type = "land" -> 10
      [] OTHER -> 10

RouteBody(rd, origin_risk, dest_risk) ==
    LET distance == Get(rd, "distance_km", 1000)
        transit_time == Get(rd, "transit_time_days", 10)
        cost_per_ton == Get(rd, "cost_per_ton", 500)
        route_type == Get(rd, "route_type", "sea")
        chokepoint == Get(rd, "chokepoint_risk", 0)
    IN  IF None \in {distance, transit_time, cost_per_ton, chokepoint,
                     origin_risk, dest_risk} THEN Raise
        ELSE
        LET chokepoint_risk == (chokepoint * FR) \div 100
            distance_normalized == NormCap(distance, 20000)
            transit_normalized == NormCap(transit_time, 30)
            cost_normalized == NormCap(cost_per_ton, 8000)
            type_multiplier == TypeMultiplier(route_type)
            distance_risk == (distance_normalized * 20) \div 100
            transit_risk == (transit_normalized * 15) \div 100
            cost_risk == (cost_normalized * 10) \div 100
            chokepoint_risk_score == (chokepoint_risk * 25) \div 100
            country_risk == ((((origin_risk + dest_risk) * FR) \div 200) * 30) \div 100
            total_risk == ToPoints(((distance_risk + transit_risk + cost_risk
                                     + chokepoint_risk_score + country_risk)
                                    * type_multiplier) \div 10)
        IN  Ret(Clamp100(total_risk))

calculate_trade_route_risk_score(rd, origin_risk, dest_risk) ==
    CatchAll(RouteBody(rd, origin_risk, dest_risk), 50 * PT)

(***************************************************************************)
(* calculate_product_risk_score.  criticality_score, price_volatility,     *)
(* substitution_difficulty, overall_volatility and supply_demand_imbalance *)
(* are given in hundredths (0.5 = 50).                                     *)
(***************************************************************************)
\* Mutant of Amplify: the multiplier applied whatever the sign of the imbalance.
AmplifySymmetric(total_risk, supply_demand_imbalance) ==
    (total_risk * (100 + supply_demand_imbalance)) \div 100

\* if supply_demand_imbalance > 0: total_risk *= (1 + supply_demand_imbalance)
Amplify(total_risk, supply_demand_imbalance) ==
    IF supply_demand_imbalance > 0
    THEN (total_risk * (100 + supply_demand_imbalance)) \div 100
    ELSE total_risk

ProductBody(pd, mc) ==
    LET criticality == Get(pd, "criticality_score", 50)
        volatility == Get(pd, "price_volatility", 20)
        substitution_difficulty == Get(pd, "substitution_difficulty", 50)
        base_price == Get(pd, "base_price_usd", 100)
        market_volatility == Get(mc, "overall_volatility", 20)
        supply_demand_imbalance == Get(mc, "supply_demand_imbalance", 0)
    IN  IF None \in {criticality, volatility, substitution_difficulty, base_price,
                     market_volatility, supply_demand_imbalance} THEN Raise
        ELSE
        LET price_normalized == LogScale(base_price, 100000)
            criticality_risk == (criticality * (FR \div 100) * 4) \div 10
            volatility_risk == ((volatility + market_volatility) * (FR \div 100) * 3) \div 10
            substitution_risk == (substitution_difficulty * (FR \div 100) * 2) \div 10
            price_risk == (price_normalized * 1) \div 10
            total_risk == ToPoints(criticality_risk + volatility_risk
                                   + substitution_risk + price_risk)
            adjusted == Amplify(total_risk, supply_demand_imbalance)
        IN  Ret(Clamp100(adjusted))

calculate_product_risk_score(pd, mc) ==
    CatchAll(ProductBody(pd, mc), 50 * PT)

(***************************************************************************)
(* calculate_company_supply_chain_risk.  overall_risk_score and            *)
(* vulnerability_score are given in points, criticality_score in           *)
(* hundredths (0.5 = 50), so criticality_score * 100 is that many points.  *)
(***************************************************************************)
RECURSIVE SumSeq(_)
SumSeq(s) ==
    IF s = <<>> THEN 0
    ELSE IF Len(s) = 1 THEN s[1]
    ELSE LET h == Len(s) \div 2
         IN  SumSeq(SubSeq(s, 1, h)) + SumSeq(SubSeq(s, h + 1, Len(s)))

\* np.mean of a non-empty list.
Mean(s) == SumSeq(s) \div Len(s)

Scores(lst, key, default) == [i \in 1..Len(lst) |-> Get(lst[i], key, default)]

HasNone(s) == \E i \in 1..Len(s) : s[i] = None

\* Mutant of ConcentrationRisk: the penalty without its floor at 0.
ConcentrationRiskUnfloored(count) == ToPoints(FR - (count * FR) \div 1000)

\* max(0, (1 - len(suppliers) / 1000) * 100)
ConcentrationRisk(count) == Max2(0, ToPoints(FR - (count * FR) \div 1000))

\* max(0, (1 - len(supplier_countries) / 20) * 100)
GeographicConcentration(count) == Max2(0, ToPoints(FR - (count * FR) \div 20))

\* Mutant of AvgOrDefault: an empty list averages to 0.
AvgOrZero(risks) == IF risks # <<>> THEN Mean(risks) ELSE 0

\* np.mean(risks) if risks else 50
AvgOrDefault(risks) == IF risks # <<>> THEN Mean(risks) ELSE 50 * PT

CompanyBody(company_data, suppliers, routes, products) ==
    LET supplier_raw == Scores(suppliers, "overall_risk_score", 50)
        route_raw == Scores(routes, "vulnerability_score", 50)
        product_raw == Scores(products, "criticality_score", 50)
    IN  IF HasNone(supplier_raw) \/ HasNone(route_raw) \/ HasNone(product_raw) THEN Raise
        ELSE
        LET supplier_risks == [i \in 1..Len(suppliers) |-> supplier_raw[i] * PT]
            route_risks == [i \in 1..Len(routes) |-> route_raw[i] * PT]
            product_risks == [i \in 1..Len(products) |-> product_raw[i] * PT]
            avg_supplier_risk == AvgOrDefault(supplier_risks)
            avg_route_risk == AvgOrDefault(route_risks)
            avg_product_risk == AvgOrDefault(product_risks)
            concentration_risk == ConcentrationRisk(Len(suppliers))
            supplier_countries == {Get(suppliers[i], "country_id", None) : i \in 1..Len(suppliers)}
            geographic_concentration ==
                GeographicConcentration(Cardinality(supplier_countries))
            overall_risk == (avg_supplier_risk * 30 + avg_route_risk * 25
                             + avg_product_risk * 20 + concentration_risk * 15
                             + geographic_concentration * 10) \div 100
        IN  Ret([supplier_risk |-> avg_supplier_risk,
                 route_risk |-> avg_route_risk,
                 product_risk |-> avg_product_risk,
                 concentration_risk |-> concentration_risk,
                 geographic_concentration |-> geographic_concentration,
                 overall_supply_chain_risk |-> Clamp100(overall_risk)])

CompanyFallback ==
    [supplier_risk |-> 50 * PT,
     route_risk |-> 50 * PT,
     product_risk |-> 50 * PT,
     concentration_risk |-> 50 * PT,
     geographic_concentration |-> 50 * PT,
     overall_supply_chain_risk |-> 50 * PT]

\* Mutant of calculate_company_supply_chain_risk: the descriptor takes part
\* in the scoring (one sector is always given the neutral assessment).
CompanyRiskBySector(company_data, suppliers, routes, products) ==
    IF company_data.sector = "Steel" THEN Ret(CompanyFallback)
    ELSE CatchAll(CompanyBody(company_data, suppliers, routes, products), CompanyFallback)

calculate_company_supply_chain_risk(company_data, suppliers, routes, products) ==
    CatchAll(CompanyBody(company_data, suppliers, routes, products), CompanyFallback)

(***************************************************************************)
(* Predictive extension: values.                                           *)
(*                                                                         *)
(* A dict is a function on its key set; feature_importance, whose key      *)
(* order predict relies on, is a sequence of [name, imp] entries.  A       *)
(* historical table is [id, columns, rows, numeric, target].  A fitted     *)
(* regressor is [kind, feats, table, base]: the columns it was fitted on,  *)
(* in order, and the table it was fitted to.                               *)
(***************************************************************************)
EmptyDict == [k \in {} |-> 0]

\* The engine retains at least one model.
Trained(m) == DOMAIN m # {}

Put(d, k, v) == [x \in (DOMAIN d) \cup {k} |-> IF x = k THEN v ELSE d[x]]

feature_columns == <<"political_stability", "economic_freedom", "corruption_index",
                     "gdp_per_capita", "trade_volume", "tariff_rate", "cyber_incidents">>

target_column == "risk_score"

\* [col for col in feature_columns if col in historical_data.columns]
AvailableFeatures(table) ==
    LET In(c) == c \in table.columns
    IN  SelectSeq(feature_columns, In)

\* RandomForestRegressor / GradientBoostingRegressor .fit(X_train, y_train)
Fit(kind, table, feats) ==
    [kind |-> kind, feats |-> feats, table |-> table.id, base |-> table.target * PT]

KindSlope(kind) == IF kind = "rf" THEN 100 ELSE 300

RECURSIVE WSum(_, _)
WSum(vec, i) == IF i > Len(vec) THEN 0 ELSE i * vec[i] + WSum(vec, i + 1)

\* model.predict([feature_vector])[0]: a deterministic function of the
\* fitted model and the vector, sensitive to the order of the vector; a
\* vector of the wrong width or holding None is rejected with an exception.
ModelPredict(m, vec) ==
    IF Len(vec) # Len(m.feats) \/ HasNone(vec) THEN Raise
    ELSE Ret(m.base + KindSlope(m.kind) * WSum(vec, 1))

\* dict(zip(available_features, rf_model.feature_importances_))
FeatureImportance(table, feats) ==
    [i \in 1..Len(feats) |-> [name |-> feats[i], imp |-> table.target + i]]

\* Mutant of FeatureNames: the recorded features in reverse order.
FeatureNamesReversed(fi) == [i \in 1..Len(fi) |-> fi[Len(fi) + 1 - i].name]

\* list(self.feature_importance.keys())
FeatureNames(fi) == [i \in 1..Len(fi) |-> fi[i].name]

RECURSIVE SumOver(_, _)
SumOver(S, f) ==
    IF S = {} THEN 0
    ELSE LET x == CHOOSE y \in S : TRUE
         IN  f[x] + SumOver(S \ {x}, f)

\* Mutant of TrainBody: the model mapping is emptied before fitting, so a
\* training run that fails leaves no model behind.
TrainBodyClears(models, fi, table) ==
    LET available_features == AvailableFeatures(table)
    IN  IF available_features = <<>> THEN [exc |-> FALSE, models |-> models, fi |-> fi]
        ELSE IF target_column \notin table.columns \/ table.rows < 2 \/ ~table.numeric
             THEN [exc |-> TRUE, models |-> EmptyDict, fi |-> fi]
        ELSE [exc |-> FALSE,
              models |-> Put(Put(EmptyDict, "random_forest",
                                 Fit("rf", table, available_features)),
                             "gradient_boosting", Fit("gb", table, available_features)),
              fi |-> FeatureImportance(table, available_features)]

\* Mutant of TrainBody: the feature list is reset when the run starts, so a
\* run that fits nothing leaves the engine without its feature list.
TrainBodyResetsFeatures(models, fi, table) ==
    LET available_features == AvailableFeatures(table)
    IN  IF available_features = <<>> THEN [exc |-> FALSE, models |-> models, fi |-> <<>>]
        ELSE IF target_column \notin table.columns \/ table.rows < 2 \/ ~table.numeric
             THEN [exc |-> TRUE, models |-> models, fi |-> <<>>]
        ELSE [exc |-> FALSE,
              models |-> Put(Put(models, "random_forest",
                                 Fit("rf", table, available_features)),
                             "gradient_boosting", Fit("gb", table, available_features)),
              fi |-> FeatureImportance(table, available_features)]

(***************************************************************************)
(* train_predictive_models: the engine fields after the body has run, and  *)
(* whether it ended in an exception.                                       *)
(***************************************************************************)
TrainBody(models, fi, table) ==
    LET available_features == AvailableFeatures(table)
        unchanged(e) == [exc |-> e, models |-> models, fi |-> fi]
    IN  IF available_features = <<>> THEN unchanged(FALSE)
        ELSE IF target_column \notin table.columns THEN unchanged(TRUE)
        ELSE IF table.rows < 2 THEN unchanged(TRUE)
        ELSE IF ~table.numeric THEN unchanged(TRUE)
        ELSE
        LET rf_model == Fit("rf", table, available_features)
            gb_model == Fit("gb", table, available_features)
        IN  [exc |-> FALSE,
             models |-> Put(Put(models, "random_forest", rf_model),
                            "gradient_boosting", gb_model),
             fi |-> FeatureImportance(table, available_features)]

\* Mutant of PredictBody: the `if not self.models` guard left out, so the
\* mean is taken over an empty list of predictions.
PredictBodyNoGuard(models, fi, features) ==
    LET feature_names == FeatureNames(fi)
        feature_vector == [i \in 1..Len(feature_names) |-> Get(features, feature_names[i], 0)]
        preds == [k \in DOMAIN models |-> ModelPredict(models[k], feature_vector)]
    IN  IF \E k \in DOMAIN models : preds[k].exc THEN Raise
        ELSE IF DOMAIN models = {} THEN Ret(NaN)
        ELSE Ret(SumOver(DOMAIN models, [k \in DOMAIN models |-> preds[k].val])
                 \div Cardinality(DOMAIN models))

(***************************************************************************)
(* predict_risk_score                                                      *)
(***************************************************************************)
PredictBody(models, fi, features) ==
    IF DOMAIN models = {} THEN Ret(50 * PT)
    ELSE
    LET feature_names == FeatureNames(fi)
        feature_vector == [i \in 1..Len(feature_names) |-> Get(features, feature_names[i], 0)]
        preds == [k \in DOMAIN models |-> ModelPredict(models[k], feature_vector)]
    IN  IF \E k \in DOMAIN models : preds[k].exc THEN Raise
        ELSE Ret(SumOver(DOMAIN models, [k \in DOMAIN models |-> preds[k].val])
                 \div Cardinality(DOMAIN models))

predict_risk_score(models, fi, features) ==
    CatchAll(PredictBody(models, fi, features), 50 * PT)

(***************************************************************************)
(* save_models / load_models.  An artifact is                              *)
(*   [kind, keys, models, fi, weights]                                     *)
(* with kind "missing" (no file), "corrupt" (not loadable) or "dict" (a    *)
(* mapping holding the entries named in keys).                             *)
(***************************************************************************)
Artifact(kind, keys, models, fi, weights) ==
    [kind |-> kind, keys |-> keys, models |-> models, fi |-> fi, weights |-> weights]

NoFile == Artifact("missing", {}, EmptyDict, <<>>, RISK_SCORE_WEIGHTS)

\* model_data = {'models': ..., 'feature_importance': ..., 'weights': ...}
ModelData(models, fi, weights) ==
    Artifact("dict", {"models", "feature_importance", "weights"}, models, fi, weights)

\* joblib.dump(model_data, filepath): fails when the location is not writable.
SaveBody(disk, path, writable, models, fi, weights) ==
    IF path \notin writable THEN [exc |-> TRUE, disk |-> disk]
    ELSE [exc |-> FALSE,
          disk |-> [disk EXCEPT ![path] = ModelData(models, fi, weights)]]

\* Mutant of LoadBody: feature_importance is not restored from the artifact.
LoadBodyKeepsFI(models, fi, weights, a) ==
    IF a.kind # "dict" \/ "models" \notin a.keys
    THEN [exc |-> TRUE, models |-> models, fi |-> fi, weights |-> weights]
    ELSE IF "feature_importance" \notin a.keys
    THEN [exc |-> TRUE, models |-> a.models, fi |-> fi, weights |-> weights]
    ELSE [exc |-> FALSE, models |-> a.models, fi |-> fi,
          weights |-> IF "weights" \in a.keys THEN a.weights ELSE weights]

\* The three assignments of load_models in order; an exception leaves the
\* assignments made before it in place.
LoadBody(models, fi, weights, a) ==
    LET st(e, m, f, w) == [exc |-> e, models |-> m, fi |-> f, weights |-> w]
    IN  IF a.kind # "dict" THEN st(TRUE, models, fi, weights)
        ELSE IF "models" \notin a.keys THEN st(TRUE, models, fi, weights)
        ELSE IF "feature_importance" \notin a.keys THEN st(TRUE, a.models, fi, weights)
        ELSE st(FALSE, a.models, a.fi,
                IF "weights" \in a.keys THEN a.weights ELSE weights)

(***************************************************************************)
(* Bounds and input sets.                                                  *)
(***************************************************************************)
\* Longest supplier / route / product list handed to the aggregator.
MaxList == 2

SeqsUpTo(S, n) == UNION {[1..k -> S] : k \in 0..n}

\* Historical tables handed to train_predictive_models.
Table(id, columns, rows, numeric, target) ==
    [id |-> id, columns |-> columns, rows |-> rows, numeric |-> numeric, target |-> target]

Tables ==
    { Table("tA", {"political_stability", "economic_freedom", "risk_score"}, 10, TRUE, 40),
      Table("tB", {"cyber_incidents", "political_stability", "trade_volume", "risk_score"},
            10, TRUE, 70),
      Table("tNoFeatures", {"region", "risk_score"}, 10, TRUE, 40),
      Table("tNoTarget", {"political_stability", "economic_freedom"}, 10, TRUE, 40),
      Table("tOneRow", {"political_stability", "risk_score"}, 1, TRUE, 40),
      Table("tText", {"political_stability", "risk_score"}, 10, FALSE, 40) }

\* Feature mappings handed to predict_risk_score.
FeatureMaps ==
    { EmptyDict,
      [political_stability |-> 3],
      [political_stability |-> 3, economic_freedom |-> 5, region |-> 9],
      [political_stability |-> None] }

\* Artifact locations: one that can be written and one that cannot.
Paths == {"p1", "nodir"}
Writable == {"p1"}

\* Weights of a deployment configured differently from the reference one.
AltWeights == [geopolitical |-> 40, economic |-> 20, regulatory |-> 10]

\* A regressor fitted elsewhere and stored under another identifier.
LegacyModels ==
    [legacy |-> [kind |-> "gb", feats |-> <<"trade_volume">>, table |-> "legacy",
                 base |-> 60 * PT]]
LegacyFI == <<[name |-> "trade_volume", imp |-> 100]>>

\* What the writable location may hold before the engine first touches it.
InitArtifacts ==
    { NoFile,
      Artifact("corrupt", {}, EmptyDict, <<>>, RISK_SCORE_WEIGHTS),
      Artifact("dict", {"models", "feature_importance", "weights"},
               LegacyModels, LegacyFI, AltWeights),
      Artifact("dict", {"models", "feature_importance"},
               LegacyModels, LegacyFI, RISK_SCORE_WEIGHTS),
      Artifact("dict", {"models", "weights"}, LegacyModels, <<>>, AltWeights),
      Artifact("dict", {"feature_importance", "weights"}, EmptyDict, LegacyFI, AltWeights) }

(***************************************************************************)
(* State.                                                                  *)
(***************************************************************************)
VARIABLES
    weights,             \* self.weights
    models,              \* self.models
    feature_importance,  \* self.feature_importance
    disk,                \* the artifact at each location
    saved,               \* per location: the engine fields at the last successful save
    call,                \* the last public call: [op, arg, ret, caught, pre]
    reader,              \* a thread inside predict_risk_score (SpecConc)
    writer,              \* a thread inside train_predictive_models / load_models (SpecConc)
    hist                 \* the (models, feature_importance) pairs left by completed writes

vars == <<weights, models, feature_importance, disk, saved, call, reader, writer, hist>>

threads == <<reader, writer, hist>>

Engine == [models |-> models, fi |-> feature_importance, weights |-> weights]

\* A completed call: what was called with what, the outcome at the public
\* boundary, whether the except branch ran, and the engine fields before.
Call(op, arg, ret, caught) ==
    [op |-> op, arg |-> arg, ret |-> ret, caught |-> caught, pre |-> Engine]

\* IScoreEngine.__init__
InitEngine ==
    /\ weights = RISK_SCORE_WEIGHTS
    /\ models = EmptyDict
    /\ feature_importance = <<>>

\* No thread is inside the engine.
ReaderIdle ==
    [pc |-> "idle", features |-> EmptyDict, early |-> FALSE, names |-> <<>>,
     live |-> FALSE, dict |-> EmptyDict, size |-> 0, got |-> EmptyDict, ret |-> Ret(None)]

NoTable == Table("", {}, 0, FALSE, 0)

WriterIdle(n) == [pc |-> "idle", table |-> NoTable, data |-> NoFile, ops |-> n]

Snapshot(m, fi) == [models |-> m, names |-> FeatureNames(fi)]

InitThreads ==
    /\ reader = ReaderIdle
    /\ writer = WriterIdle(0)
    /\ hist = {Snapshot(EmptyDict, <<>>)}

Init ==
    /\ InitEngine
    /\ \E a \in InitArtifacts : disk = [p \in Paths |-> IF p \in Writable THEN a ELSE NoFile]
    /\ saved = [p \in Paths |-> [valid |-> FALSE, eng |-> Engine]]
    /\ call = Call("init", 0, Ret(None), FALSE)
    /\ InitThreads

\* A fresh engine object replaces the one in use (a process restart).
Construct ==
    /\ weights' = RISK_SCORE_WEIGHTS
    /\ models' = EmptyDict
    /\ feature_importance' = <<>>
    /\ call' = Call("construct", 0, Ret(None), FALSE)
    /\ UNCHANGED <<disk, saved, threads>>

Train(t) ==
    LET r == TrainBody(models, feature_importance, t)
    IN  /\ models' = r.models
        /\ feature_importance' = r.fi
        /\ call' = Call("train", t.id, CatchAll([exc |-> r.exc, val |-> None], None), r.exc)
        /\ UNCHANGED <<weights, disk, saved, threads>>

Predict(f) ==
    /\ call' = Call("predict", f, predict_risk_score(models, feature_importance, f),
                    PredictBody(models, feature_importance, f).exc)
    /\ UNCHANGED <<weights, models, feature_importance, disk, saved, threads>>

\* Mutant of Save: the engine hands its models over to the artifact and
\* keeps none.
SaveAndRelease(p) ==
    LET r == SaveBody(disk, p, Writable, models, feature_importance, weights)
    IN  /\ disk' = r.disk
        /\ saved' = IF r.exc THEN saved
                    ELSE [saved EXCEPT ![p] = [valid |-> TRUE, eng |-> Engine]]
        /\ call' = Call("save", p, CatchAll([exc |-> r.exc, val |-> None], None), r.exc)
        /\ models' = EmptyDict
        /\ feature_importance' = <<>>
        /\ UNCHANGED <<weights, threads>>

Save(p) ==
    LET r == SaveBody(disk, p, Writable, models, feature_importance, weights)
    IN  /\ disk' = r.disk
        /\ saved' = IF r.exc THEN saved
                    ELSE [saved EXCEPT ![p] = [valid |-> TRUE, eng |-> Engine]]
        /\ call' = Call("save", p, CatchAll([exc |-> r.exc, val |-> None], None), r.exc)
        /\ UNCHANGED <<weights, models, feature_importance, threads>>

Load(p) ==
    LET r == LoadBody(models, feature_importance, weights, disk[p])
    IN  /\ models' = r.models
        /\ feature_importance' = r.fi
        /\ weights' = r.weights
        /\ call' = Call("load", p, CatchAll([exc |-> r.exc, val |-> None], None), r.exc)
        /\ UNCHANGED <<disk, saved, threads>>

(***************************************************************************)
(* The rule-based scorers as calls on the engine.                          *)
(***************************************************************************)
CalcCountry(cd) ==
    /\ call' = Call("country", cd, calculate_country_risk_score(weights, cd),
                    CountryBody(weights, cd).exc)
    /\ UNCHANGED <<weights, models, feature_importance, disk, saved, threads>>

CalcSupplier(sd, cr) ==
    /\ call' = Call("supplier", [sd |-> sd, country_risk |-> cr],
                    calculate_supplier_risk_score(sd, cr), SupplierBody(sd, cr).exc)
    /\ UNCHANGED <<weights, models, feature_importance, disk, saved, threads>>

CalcRoute(rd, o, d) ==
    /\ call' = Call("route", [rd |-> rd, origin_risk |-> o, dest_risk |-> d],
                    calculate_trade_route_risk_score(rd, o, d), RouteBody(rd, o, d).exc)
    /\ UNCHANGED <<weights, models, feature_importance, disk, saved, threads>>

CalcProduct(pd, mc) ==
    /\ call' = Call("product", [pd |-> pd, mc |-> mc],
                    calculate_product_risk_score(pd, mc), ProductBody(pd, mc).exc)
    /\ UNCHANGED <<weights, models, feature_importance, disk, saved, threads>>

CalcCompany(c, ss, rs, ps) ==
    /\ call' = Call("company", [company |-> c, suppliers |-> ss, routes |-> rs, products |-> ps],
                    calculate_company_supply_chain_risk(c, ss, rs, ps),
                    CompanyBody(c, ss, rs, ps).exc)
    /\ UNCHANGED <<weights, models, feature_importance, disk, saved, threads>>

(***************************************************************************)
(* Attribute bundles.  A key left out of a bundle is an absent attribute;  *)
(* a key carrying None is an unset column passed through by the caller.    *)
(***************************************************************************)
CountryGrid ==
    { [political_stability_index |-> ps, economic_freedom_index |-> ef,
       corruption_perception_index |-> ci, gdp_usd |-> gdp, population |-> pop] :
        ps \in {0, 50, 75, 100}, ef \in {0, 80, 100}, ci \in {0, 70, 100},
        gdp \in {0, 50000, 2000000000}, pop \in {-5, 0, 1, 100000} }
    \cup
    { EmptyDict,
      [political_stability_index |-> 75, economic_freedom_index |-> 80,
       corruption_perception_index |-> 70, gdp_usd |-> 50000],
      [political_stability_index |-> 75, economic_freedom_index |-> 80,
       corruption_perception_index |-> 70, gdp_usd |-> 50000, population |-> None],
      [political_stability_index |-> None, economic_freedom_index |-> 80,
       corruption_perception_index |-> 70, gdp_usd |-> 50000, population |-> 1] }

CountrySmall ==
    { [political_stability_index |-> 75, economic_freedom_index |-> 80,
       corruption_perception_index |-> 70, gdp_usd |-> 2000000000, population |-> 100000],
      [political_stability_index |-> 0, economic_freedom_index |-> 50,
       corruption_perception_index |-> 50, gdp_usd |-> 0, population |-> 1],
      [political_stability_index |-> None, economic_freedom_index |-> 80,
       corruption_perception_index |-> 70, gdp_usd |-> 50000, population |-> 1] }

SupplierGrid ==
    { [financial_health_score |-> fh, cyber_risk_score |-> cy, operational_risk_score |-> op,
       tier |-> tier, annual_revenue |-> 50000000] :
        fh \in {0, 50, 85, 100}, cy \in {0, 30, 100}, op \in {0, 40, 100},
        tier \in 1..6 }
    \cup
    { EmptyDict,
      [financial_health_score |-> 85, cyber_risk_score |-> 30, operational_risk_score |-> 40,
       tier |-> 2],
      [financial_health_score |-> 85, cyber_risk_score |-> 30, operational_risk_score |-> 40,
       tier |-> 2, annual_revenue |-> 0],
      [financial_health_score |-> None, cyber_risk_score |-> 30, operational_risk_score |-> 40,
       tier |-> 2, annual_revenue |-> 50000000],
      [financial_health_score |-> 150, cyber_risk_score |-> 30, operational_risk_score |-> 40,
       tier |-> 2, annual_revenue |-> 50000000] }

CountryRisks == {0, 25, 100, None}

SupplierSmall ==
    { [financial_health_score |-> 85, cyber_risk_score |-> 30, operational_risk_score |-> 40,
       tier |-> 2, annual_revenue |-> 50000000] }

RouteGrid ==
    { [distance_km |-> d, transit_time_days |-> t, cost_per_ton |-> c, route_type |-> ty,
       chokepoint_risk |-> ch] :
        d \in {0, 10000, 40000}, t \in {0, 15, 60}, c \in {0, 4000, 16000},
        ty \in {"sea", "air", "land", "rail"}, ch \in {0, 50, 100} }
    \cup
    { EmptyDict,
      [distance_km |-> None, transit_time_days |-> 15, cost_per_ton |-> 4000,
       route_type |-> "sea", chokepoint_risk |-> 50] }

EndpointRisks == {0, 100}

RouteSmall ==
    { [distance_km |-> 10000, transit_time_days |-> 15, cost_per_ton |-> 4000,
       route_type |-> "sea", chokepoint_risk |-> 50] }

ProductGrid ==
    { [criticality_score |-> cr, price_volatility |-> v, substitution_difficulty |-> s,
       base_price_usd |-> p] :
        cr \in {0, 50, 90, 8500}, v \in {0, 20, 4000}, s \in {0, 100}, p \in {0, 100, 99999} }
    \cup
    { EmptyDict,
      [criticality_score |-> None, price_volatility |-> 20, substitution_difficulty |-> 50,
       base_price_usd |-> 100] }

MarketGrid ==
    { [overall_volatility |-> mv, supply_demand_imbalance |-> im] :
        mv \in {0, 20}, im \in {-50, 0, 20, 50} }
    \cup { EmptyDict }

ProductSmall ==
    { [criticality_score |-> 90, price_volatility |-> 20, substitution_difficulty |-> 50,
       base_price_usd |-> 100] }

SupplierItems ==
    { [overall_risk_score |-> 30, country_id |-> 1],
      [overall_risk_score |-> 80, country_id |-> 2],
      [country_id |-> 1],
      [overall_risk_score |-> 30],
      [overall_risk_score |-> None, country_id |-> 2] }

RouteItems ==
    { [vulnerability_score |-> 20], EmptyDict }

\* 1.02 is a value the repository's own generator produces (0.9 * (1 + N(0, 0.1))).
ProductItems ==
    { [criticality_score |-> 50], [criticality_score |-> 102], [criticality_score |-> 8500] }

\* Supplier lists around the sizes at which the two concentration penalties
\* reach 0: n suppliers spread over m countries.
LargeSupplierLists ==
    { [i \in 1..n |-> [overall_risk_score |-> 30, country_id |-> 1 + (i % m)]] :
        n \in {999, 1000, 1001}, m \in {19, 20, 21} }

Companies == { [id |-> 1, name |-> "Acme", sector |-> "Steel"],
               [id |-> 2, name |-> "Globex", sector |-> "Textiles"] }

(***************************************************************************)
(* Spec: one engine used sequentially; every public operation is atomic.   *)
(***************************************************************************)
Next ==
    \/ Construct
    \/ \E t \in Tables : Train(t)
    \/ \E f \in FeatureMaps : Predict(f)
    \/ \E p \in Paths : Save(p)
    \/ \E p \in Paths : Load(p)
    \/ \E cd \in CountrySmall : CalcCountry(cd)
    \/ \E sd \in SupplierSmall : CalcSupplier(sd, 25)
    \/ \E rd \in RouteSmall : CalcRoute(rd, 0, 100)
    \/ \E pd \in ProductSmall : CalcProduct(pd, EmptyDict)
    \/ \E c \in Companies : CalcCompany(c, <<>>, <<>>, <<>>)

Spec == Init /\ [][Next]_vars

(***************************************************************************)
(* SpecScorers: one scorer call, on any bundle of the grids, on a freshly   *)
(* constructed engine.                                                     *)
(***************************************************************************)
ScoreCountry ==
    /\ call.op = "init"
    /\ \E cd \in CountryGrid : CalcCountry(cd)

ScoreSupplier ==
    /\ call.op = "init"
    /\ \E sd \in SupplierGrid, cr \in CountryRisks : CalcSupplier(sd, cr)

ScoreRoute ==
    /\ call.op = "init"
    /\ \E rd \in RouteGrid, o \in EndpointRisks, d \in EndpointRisks : CalcRoute(rd, o, d)

ScoreProduct ==
    /\ call.op = "init"
    /\ \E pd \in ProductGrid, mc \in MarketGrid : CalcProduct(pd, mc)

ScoreCompany ==
    /\ call.op = "init"
    /\ \E c \in Companies, ss \in SeqsUpTo(SupplierItems, MaxList),
          rs \in SeqsUpTo(RouteItems, MaxList), ps \in SeqsUpTo(ProductItems, MaxList) :
            CalcCompany(c, ss, rs, ps)

ScoreCompanyLarge ==
    /\ call.op = "init"
    /\ \E c \in Companies, ss \in LargeSupplierLists,
          rs \in SeqsUpTo(RouteItems, 1), ps \in SeqsUpTo(ProductItems, 1) :
            CalcCompany(c, ss, rs, ps)

NextScorers ==
    \/ ScoreCompanyLarge
    \/ ScoreCountry
    \/ ScoreSupplier
    \/ ScoreRoute
    \/ ScoreProduct
    \/ ScoreCompany

InitScorers ==
    /\ InitEngine
    /\ disk = [p \in Paths |-> NoFile]
    /\ saved = [p \in Paths |-> [valid |-> FALSE, eng |-> Engine]]
    /\ call = Call("init", 0, Ret(None), FALSE)
    /\ InitThreads

SpecScorers == InitScorers /\ [][NextScorers]_vars

(***************************************************************************)
(* SpecConc: one engine shared by a thread calling predict_risk_score and  *)
(* a thread calling train_predictive_models / load_models.  The engine     *)
(* takes no lock, so each read and each assignment of self.models and      *)
(* self.feature_importance is a step of its own.                           *)
(***************************************************************************)
\* Writer calls made on the shared engine.
MaxWriterOps == 2

\* Insertion order of the keys of every model mapping that can arise.
KeyOrder == <<"legacy", "random_forest", "gradient_boosting">>

\* The first key, in insertion order, that the iteration has not yielded.
NextKey(d, got) ==
    LET left == {i \in 1..Len(KeyOrder) : KeyOrder[i] \in DOMAIN d /\ KeyOrder[i] \notin DOMAIN got}
    IN  KeyOrder[CHOOSE i \in left : \A j \in left : i <= j]

FeatureVector(names, features) == [i \in 1..Len(names) |-> Get(features, names[i], 0)]

engineOnly == <<disk, saved, call>>

\* predict_risk_score is entered.
R_Call(f) ==
    /\ reader.pc = "idle"
    /\ reader' = [ReaderIdle EXCEPT !.pc = "check", !.features = f]
    /\ UNCHANGED <<weights, models, feature_importance, writer, hist, engineOnly>>

\* if not self.models: return 50.0
R_Check ==
    /\ reader.pc = "check"
    /\ reader' = IF ~Trained(models)
                 THEN [reader EXCEPT !.pc = "done", !.early = TRUE, !.ret = Ret(50 * PT)]
                 ELSE [reader EXCEPT !.pc = "names"]
    /\ UNCHANGED <<weights, models, feature_importance, writer, hist, engineOnly>>

\* feature_names = list(self.feature_importance.keys()) and the vector
R_Names ==
    /\ reader.pc = "names"
    /\ reader' = [reader EXCEPT !.pc = "iter", !.names = FeatureNames(feature_importance)]
    /\ UNCHANGED <<weights, models, feature_importance, writer, hist, engineOnly>>

\* self.models.items(): the iteration is bound to the mapping object that
\* self.models names now.
R_Iter ==
    /\ reader.pc = "iter"
    /\ reader' = [reader EXCEPT !.pc = "loop", !.live = TRUE,
                                !.size = Cardinality(DOMAIN models)]
    /\ UNCHANGED <<weights, models, feature_importance, writer, hist, engineOnly>>

\* One turn of the for loop, or its end.  The iterated mapping is the one
\* self.models still names (live) or the object it named when it was rebound.
R_Loop ==
    /\ reader.pc = "loop"
    /\ LET cur == IF reader.live THEN models ELSE reader.dict
           vec == FeatureVector(reader.names, reader.features)
           fail == [reader EXCEPT !.pc = "done", !.ret = Ret(50 * PT)]
       IN  reader' =
             IF Cardinality(DOMAIN cur) # reader.size THEN fail
             ELSE IF DOMAIN cur = DOMAIN reader.got
             THEN [reader EXCEPT !.pc = "done",
                     !.ret = IF DOMAIN cur = {} THEN Ret(NaN)
                             ELSE Ret(SumOver(DOMAIN cur,
                                        [k \in DOMAIN cur |->
                                            ModelPredict(reader.got[k], vec).val])
                                      \div Cardinality(DOMAIN cur))]
             ELSE LET k == NextKey(cur, reader.got)
                  IN  IF ModelPredict(cur[k], vec).exc
                      THEN [fail EXCEPT !.got = Put(reader.got, k, cur[k])]
                      ELSE [reader EXCEPT !.got = Put(reader.got, k, cur[k])]
    /\ UNCHANGED <<weights, models, feature_importance, writer, hist, engineOnly>>

\* predict_risk_score has returned.
R_Return ==
    /\ reader.pc = "done"
    /\ reader' = ReaderIdle
    /\ UNCHANGED <<weights, models, feature_importance, writer, hist, engineOnly>>

\* train_predictive_models up to the first assignment: the filter, the
\* split and the two fits touch no field of the engine.
W_Train(t) ==
    /\ writer.pc = "idle"
    /\ writer.ops < MaxWriterOps
    /\ LET r == TrainBody(models, feature_importance, t)
       IN  writer' = IF r.exc \/ AvailableFeatures(t) = <<>>
                     THEN WriterIdle(writer.ops + 1)
                     ELSE [writer EXCEPT !.pc = "t1", !.table = t]
    /\ UNCHANGED <<weights, models, feature_importance, reader, hist, engineOnly>>

\* self.models['random_forest'] = rf_model
W_T1 ==
    /\ writer.pc = "t1"
    /\ models' = Put(models, "random_forest",
                     Fit("rf", writer.table, AvailableFeatures(writer.table)))
    /\ writer' = [writer EXCEPT !.pc = "t2"]
    /\ UNCHANGED <<weights, feature_importance, reader, hist, engineOnly>>

\* self.models['gradient_boosting'] = gb_model
W_T2 ==
    /\ writer.pc = "t2"
    /\ models' = Put(models, "gradient_boosting",
                     Fit("gb", writer.table, AvailableFeatures(writer.table)))
    /\ writer' = [writer EXCEPT !.pc = "t3"]
    /\ UNCHANGED <<weights, feature_importance, reader, hist, engineOnly>>

\* self.feature_importance = dict(zip(...)); the call then only evaluates
\* and logs.
W_T3 ==
    /\ writer.pc = "t3"
    /\ feature_importance' = FeatureImportance(writer.table, AvailableFeatures(writer.table))
    /\ hist' = hist \cup {Snapshot(models, feature_importance')}
    /\ writer' = WriterIdle(writer.ops + 1)
    /\ UNCHANGED <<weights, models, reader, engineOnly>>

\* model_data = joblib.load(filepath)
W_Load(p) ==
    /\ writer.pc = "idle"
    /\ writer.ops < MaxWriterOps
    /\ writer' = IF disk[p].kind # "dict" THEN WriterIdle(writer.ops + 1)
                 ELSE [writer EXCEPT !.pc = "l1", !.data = disk[p]]
    /\ UNCHANGED <<weights, models, feature_importance, reader, hist, engineOnly>>

\* self.models = model_data['models']: self.models names a new object; a
\* loop under way keeps iterating the old one.
W_L1 ==
    /\ writer.pc = "l1"
    /\ IF "models" \notin writer.data.keys
       THEN /\ writer' = WriterIdle(writer.ops + 1)
            /\ UNCHANGED <<models, reader>>
       ELSE /\ models' = writer.data.models
            /\ reader' = IF reader.pc = "loop" /\ reader.live
                         THEN [reader EXCEPT !.live = FALSE, !.dict = models]
                         ELSE reader
            /\ writer' = [writer EXCEPT !.pc = "l2"]
    /\ UNCHANGED <<weights, feature_importance, hist, engineOnly>>

\* self.feature_importance = model_data['feature_importance']
W_L2 ==
    /\ writer.pc = "l2"
    /\ IF "feature_importance" \notin writer.data.keys
       THEN /\ writer' = WriterIdle(writer.ops + 1)
            /\ hist' = hist \cup {Snapshot(models, feature_importance)}
            /\ UNCHANGED feature_importance
       ELSE /\ feature_importance' = writer.data.fi
            /\ hist' = hist \cup {Snapshot(models, feature_importance')}
            /\ writer' = [writer EXCEPT !.pc = "l3"]
    /\ UNCHANGED <<weights, models, reader, engineOnly>>

\* self.weights = model_data.get('weights', self.weights)
W_L3 ==
    /\ writer.pc = "l3"
    /\ weights' = IF "weights" \in writer.data.keys THEN writer.data.weights ELSE weights
    /\ writer' = WriterIdle(writer.ops + 1)
    /\ UNCHANGED <<models, feature_importance, reader, hist, engineOnly>>

NextConc ==
    \/ \E f \in FeatureMaps : R_Call(f)
    \/ R_Check
    \/ R_Names
    \/ R_Iter
    \/ R_Loop
    \/ R_Return
    \/ \E t \in Tables : W_Train(t)
    \/ W_T1
    \/ W_T2
    \/ W_T3
    \/ \E p \in Paths : W_Load(p)
    \/ W_L1
    \/ W_L2
    \/ W_L3

SpecConc == Init /\ [][NextConc]_vars

(***************************************************************************)
(* Claims.                                                                 *)
(***************************************************************************)
InRange(x) == 0 <= x /\ x <= 100 * PT

\* C1 (as stated): every value a scorer returns - the scalar, or every entry
\* of the breakdown, sub-scores included - lies in [0, 100].
C1_AllValuesInRange ==
    /\ call.op \in {"country", "route", "product"} => InRange(call.ret.val)
    /\ call.op \in {"supplier", "company"} =>
           \A k \in DOMAIN call.ret.val : InRange(call.ret.val[k])

\* C2: no public operation lets an exception escape; whatever goes wrong
\* inside, the call returns normally.
C2_NoExceptionEscapes == call.ret.exc = FALSE

\* C2 witness: a load on a trained engine failed inside and returned
\* normally at the public boundary.
C2_Witness ==
    /\ call.caught
    /\ ~call.ret.exc
    /\ call.op = "load"
    /\ Trained(models)

\* C3 (as stated): a load_models call that fails leaves models,
\* feature_importance and weights exactly as they were before the call.
C3_FailedLoadKeepsState ==
    (call.op = "load" /\ call.caught) => Engine = call.pre

\* C4: whenever the engine retains no model, predict_risk_score returns
\* exactly 50.0 for every feature mapping and does not raise.
C4_UntrainedPredictsNeutral ==
    /\ ~Trained(models) =>
           \A f \in FeatureMaps :
               predict_risk_score(models, feature_importance, f) = Ret(50 * PT)
    /\ (call.op = "predict" /\ ~Trained(call.pre.models)) => call.ret = Ret(50 * PT)

\* C4 witness: a predict with a non-empty mapping on an engine without a
\* model, while an artifact saved by a trained engine exists.
C4_Witness ==
    /\ call.op = "predict"
    /\ ~Trained(call.pre.models)
    /\ call.arg # EmptyDict
    /\ call.ret.val = 50 * PT
    /\ saved["p1"].valid
    /\ Trained(saved["p1"].eng.models)

\* C5 (as stated): the models and the feature list that one predict call
\* reads come from one state left by a completed train or load (or from the
\* state before it), never from a mixture of two.
C5_PredictReadsOneState ==
    reader.pc = "done" =>
        IF reader.early THEN \E h \in hist : ~Trained(h.models)
        ELSE \E h \in hist : h.models = reader.got /\ h.names = reader.names

\* C6: after a successful load from a location last written by a successful
\* save in engine state S, the engine's models, feature_importance and
\* weights are those of S, and every prediction equals the one S gives.
C6_RoundTrip ==
    (call.op = "load" /\ ~call.caught /\ saved[call.arg].valid) =>
        /\ Engine = saved[call.arg].eng
        /\ \A f \in FeatureMaps :
               predict_risk_score(models, feature_importance, f)
                 = predict_risk_score(saved[call.arg].eng.models,
                                      saved[call.arg].eng.fi, f)

\* C6 witness: a load of a saved artifact that changed the engine to a
\* trained one with another feature list.
C6_Witness ==
    /\ call.op = "load"
    /\ ~call.caught
    /\ saved[call.arg].valid
    /\ Trained(models)
    /\ call.pre.fi # feature_importance
    /\ call.pre.models # models

\* C7 (as stated): once an engine retains a model it retains one after every
\* later predict, train, save or load, and a successful load always leaves
\* the engine Trained.
C7_OnceTrainedAlwaysTrained ==
    /\ (call.op \in {"predict", "train", "save", "load"} /\ Trained(call.pre.models))
           => Trained(models)
    /\ (call.op = "load" /\ ~call.caught) => Trained(models)

\* C7 (amended): predict, train (successful or failed) and save never take a
\* Trained engine to Untrained; a successful load leaves the engine with the
\* artifact's model mapping, Trained exactly when that mapping is non-empty.
C7_TrainedKeptExceptByLoad ==
    /\ (call.op \in {"predict", "train", "save"} /\ Trained(call.pre.models))
           => Trained(models)
    /\ (call.op = "load" /\ ~call.caught) =>
           /\ models = disk[call.arg].models
           /\ Trained(models) <=> Trained(disk[call.arg].models)

\* C7 witness: a failed training run on a Trained engine, which stays Trained.
C7_Witness ==
    /\ call.op = "train"
    /\ call.caught
    /\ Trained(call.pre.models)
    /\ Trained(models)

\* C8 (as stated): the country scorer returns, for a given bundle, the value
\* the freshly constructed engine returns for it, whatever train, predict,
\* save and load calls were made on the engine before.
C8_ScorersIndependentOfEngineOps ==
    call.op = "country" =>
        call.ret = calculate_country_risk_score(RISK_SCORE_WEIGHTS, call.arg)

\* C9 (as stated): overall_risk is clamp[0,100] of the blend of the raw
\* fractions, ((1 - fh) * 0.3 + cyber * 0.2 + operational * 0.2
\* + country_risk/100 * 0.2 + tier_risk * 0.1) * 100.
C9_OverallFromRawFractions ==
    (call.op = "supplier" /\ ~call.caught) =>
        LET sd == call.arg.sd
            fh == (Get(sd, "financial_health_score", 50) * FR) \div 100
            cy == (Get(sd, "cyber_risk_score", 50) * FR) \div 100
            op == (Get(sd, "operational_risk_score", 50) * FR) \div 100
            cr == (call.arg.country_risk * FR) \div 100
            tr == ((((Get(sd, "tier", 1) - 1) * FR) \div 5) * 3) \div 10
        IN  call.ret.val.overall_risk
              = Clamp100(ToPoints(((FR - fh) * 3) \div 10 + (cy * 2) \div 10
                                  + (op * 2) \div 10 + (cr * 2) \div 10 + tr \div 10))

\* The vulnerability of the called route had it the type ty: the call's own
\* result for its own type, the scorer applied to the same bundle otherwise.
Vulnerability(ty) ==
    IF Get(call.arg.rd, "route_type", "sea") = ty THEN call.ret.val
    ELSE calculate_trade_route_risk_score(Put(call.arg.rd, "route_type", ty),
                                          call.arg.origin_risk, call.arg.dest_risk).val

\* C10 (as stated): for every bundle, vulnerability(sea) > vulnerability(land)
\* > vulnerability(air), both strict.
C10_StrictTypeOrdering ==
    (call.op = "route" /\ ~call.caught) =>
        /\ Vulnerability("sea") > Vulnerability("land")
        /\ Vulnerability("land") > Vulnerability("air")

\* C10 (amended): sea >= land >= air always; land > air whenever the land
\* score is positive; sea > land whenever the land score is positive and
\* below the clamp at 100.
C10_TypeOrdering ==
    (call.op = "route" /\ ~call.caught) =>
        /\ Vulnerability("sea") >= Vulnerability("land")
        /\ Vulnerability("land") >= Vulnerability("air")
        /\ Vulnerability("land") > 0 => Vulnerability("land") > Vulnerability("air")
        /\ (Vulnerability("land") > 0 /\ Vulnerability("land") < 100 * PT)
               => Vulnerability("sea") > Vulnerability("land")

\* C10 witness: a sea route whose land counterpart already scores 100, so
\* that sea and land coincide at the clamp while air stays below.
C10_Witness ==
    /\ call.op = "route"
    /\ ~call.caught
    /\ Get(call.arg.rd, "route_type", "sea") = "sea"
    /\ call.ret.val = 100 * PT
    /\ Vulnerability("land") = 100 * PT
    /\ Vulnerability("air") < 100 * PT


\* C11: for fixed financial, cyber, operational scores and country_risk, the
\* overall_risk of the supplier scorer does not decrease when tier is raised
\* to any deeper tier up to 6.
C11_TierMonotone ==
    (call.op = "supplier" /\ ~call.caught /\ "tier" \in DOMAIN call.arg.sd) =>
        \A t2 \in (call.arg.sd.tier + 1)..6 :
            calculate_supplier_risk_score(Put(call.arg.sd, "tier", t2),
                                          call.arg.country_risk).val.overall_risk
              >= call.ret.val.overall_risk

\* C11 witness: a tier-3 supplier whose overall_risk is below that of the
\* same supplier at tier 4, itself below the one at tier 6.
C11_Witness ==
    /\ call.op = "supplier"
    /\ ~call.caught
    /\ "tier" \in DOMAIN call.arg.sd
    /\ call.arg.sd.tier = 3
    /\ call.ret.val.overall_risk
         < calculate_supplier_risk_score(Put(call.arg.sd, "tier", 4),
                                         call.arg.country_risk).val.overall_risk
    /\ calculate_supplier_risk_score(Put(call.arg.sd, "tier", 4),
                                     call.arg.country_risk).val.overall_risk
         < calculate_supplier_risk_score(Put(call.arg.sd, "tier", 6),
                                         call.arg.country_risk).val.overall_risk


CountryIndices ==
    {"political_stability_index", "economic_freedom_index", "corruption_perception_index"}

\* C13: on the normal path, with every other field held fixed and positive
\* weights (the configured ones or those of a loaded artifact), raising
\* political_stability_index, economic_freedom_index or
\* corruption_perception_index by one step anywhere in 0..100 strictly lowers
\* the country score.
C13_StrictlyDecreasing ==
    (call.op = "country" /\ ~call.caught) =>
        \A key \in CountryIndices, w \in {weights, AltWeights}, v \in 0..99 :
            calculate_country_risk_score(w, Put(call.arg, key, v + 1)).val
              < calculate_country_risk_score(w, Put(call.arg, key, v)).val

\* C13 witness: a normal country call with political stability 50 whose
\* score lies strictly between the scores at stability 75 and at stability 0.
C13_Witness ==
    /\ call.op = "country"
    /\ ~call.caught
    /\ "political_stability_index" \in DOMAIN call.arg
    /\ call.arg.political_stability_index = 50
    /\ calculate_country_risk_score(weights,
            Put(call.arg, "political_stability_index", 75)).val < call.ret.val
    /\ call.ret.val < calculate_country_risk_score(weights,
            Put(call.arg, "political_stability_index", 0)).val


\* C14 (as stated): with population 0 or missing, the normalized GDP per
\* capita is taken as the neutral 0.5, so that development_risk is
\* 0.5 * economic weight and the score does not depend on gdp_usd.
C14_NeutralDevelopmentTerm ==
    (/\ call.op = "country"
     /\ ~call.caught
     /\ ("population" \notin DOMAIN call.arg \/ call.arg.population = 0)) =>
        LET cd == call.arg
            ps == (Get(cd, "political_stability_index", 50) * FR) \div 100
            ef == (Get(cd, "economic_freedom_index", 50) * FR) \div 100
            ci == (Get(cd, "corruption_perception_index", 50) * FR) \div 100
            neutral == ((FR - ps) * weights.geopolitical) \div 100
                       + ((FR - ef) * weights.economic) \div 100
                       + ((FR - ci) * weights.regulatory) \div 100
                       + ((FR \div 2) * weights.economic) \div 100
        IN  /\ call.ret.val = Clamp100(Sigmoid(ToPoints(neutral)))
            /\ \A g \in {0, 50000, 2000000000} :
                   calculate_country_risk_score(weights, Put(cd, "gdp_usd", g)) = call.ret

\* C15 (as stated): with a population that is zero or negative the country
\* scorer takes its recovery path and returns exactly 50.0.
C15_NonPositivePopulationNeutral ==
    (/\ call.op = "country"
     /\ "population" \in DOMAIN call.arg
     /\ call.arg.population # None
     /\ call.arg.population <= 0) =>
        /\ call.caught
        /\ call.ret = Ret(50 * PT)


\* The documented neutral defaults and ranges of the supplier and country
\* attributes, and a bundle with every absent, unset or out-of-range
\* attribute replaced by its default.
SupplierDefaults ==
    [financial_health_score |-> 50, cyber_risk_score |-> 50, operational_risk_score |-> 50,
     tier |-> 1, annual_revenue |-> 1000000]

CountryDefaults ==
    [political_stability_index |-> 50, economic_freedom_index |-> 50,
     corruption_perception_index |-> 50, gdp_usd |-> 0, population |-> 1]

InDocumentedRange(k, v) ==
    CASE k \in {"financial_health_score", "cyber_risk_score", "operational_risk_score"}
             \cup CountryIndices -> v \in 0..100
      [] k = "tier" -> v \in 1..6
      [] k = "population" -> v >= 1
      [] OTHER -> v >= 0

WithDefaults(d, defaults) ==
    [k \in DOMAIN defaults |->
        IF k \in DOMAIN d /\ d[k] # None /\ InDocumentedRange(k, d[k])
        THEN d[k] ELSE defaults[k]]

\* C16 (as stated): an attribute that is absent, carries no value, or lies
\* outside its documented range is replaced by its neutral default and the
\* normal computation proceeds: the call is not recovered by the whole-scorer
\* fallback and returns what the bundle with the defaults filled in returns.
C16_DefectsReplacedByDefaults ==
    /\ call.op = "supplier" =>
           /\ ~call.caught
           /\ call.ret = calculate_supplier_risk_score(
                             WithDefaults(call.arg.sd, SupplierDefaults),
                             call.arg.country_risk)
    /\ call.op = "country" =>
           /\ ~call.caught
           /\ call.ret = calculate_country_risk_score(
                             weights, WithDefaults(call.arg, CountryDefaults))


\* C17 (as stated): a product's criticality_score is multiplied by 100 only
\* when it is a fraction in [0, 1]; a score already on the 0-100 scale is
\* used as it is, so the product_risk average never exceeds 100.
\* (criticality_score is carried in hundredths: 1.0 is 100, 85.0 is 8500.)
C17_CriticalityScaledOnlyIfFraction ==
    (call.op = "company" /\ ~call.caught /\ call.arg.products # <<>>) =>
        LET ps == call.arg.products
            asScore(c) == IF c <= 100 THEN c * PT ELSE (c * PT) \div 100
        IN  /\ call.ret.val.product_risk
                 = Mean([i \in 1..Len(ps) |-> asScore(Get(ps[i], "criticality_score", 50))])
            /\ call.ret.val.product_risk <= 100 * PT


\* C18: on the normal path the supplier breakdown has exactly the keys
\* financial_risk, cyber_risk, operational_risk, country_risk, tier_risk and
\* overall_risk, with financial_risk = (100 - financial_health) * 0.4,
\* cyber_risk = cyber * 0.3, operational_risk = operational * 0.3,
\* tier_risk = (tier - 1) / 5 * 30, and country_risk the argument unchanged.
C18_BreakdownComponents ==
    (call.op = "supplier" /\ ~call.caught) =>
        LET sd == call.arg.sd
            r == call.ret.val
        IN  /\ DOMAIN r = {"financial_risk", "cyber_risk", "operational_risk",
                           "country_risk", "tier_risk", "overall_risk"}
            /\ r.financial_risk
                 = ((100 - Get(sd, "financial_health_score", 50)) * 4 * PT) \div 10
            /\ r.cyber_risk = (Get(sd, "cyber_risk_score", 50) * 3 * PT) \div 10
            /\ r.operational_risk = (Get(sd, "operational_risk_score", 50) * 3 * PT) \div 10
            /\ r.tier_risk = ((Get(sd, "tier", 1) - 1) * 30 * PT) \div 5
            /\ r.country_risk = call.arg.country_risk * PT

\* C18 witness: the supplier with financial health 85, cyber 30, operational
\* 40, tier 2 and country_risk 25 yields 6.0, 9.0, 12.0, 6.0 and echoes 25.
C18_Witness ==
    /\ call.op = "supplier"
    /\ ~call.caught
    /\ call.arg.sd = [financial_health_score |-> 85, cyber_risk_score |-> 30,
                      operational_risk_score |-> 40, tier |-> 2,
                      annual_revenue |-> 50000000]
    /\ call.arg.country_risk = 25
    /\ call.ret.val.financial_risk = 6 * PT
    /\ call.ret.val.cyber_risk = 9 * PT
    /\ call.ret.val.operational_risk = 12 * PT
    /\ call.ret.val.tier_risk = 6 * PT
    /\ call.ret.val.country_risk = 25 * PT


\* C19: on the normal path the company scorer returns
\* overall_supply_chain_risk = clamp[0,100](0.3 * supplier_risk
\* + 0.25 * route_risk + 0.2 * product_risk + 0.15 * concentration_risk
\* + 0.1 * geographic_concentration), with concentration_risk
\* = max(0, (1 - suppliers / 1000) * 100) and geographic_concentration
\* = max(0, (1 - distinct country_id values / 20) * 100); both penalties are
\* exactly 0 from 1000 suppliers / 20 distinct values upward and neither
\* grows when one more supplier is appended.
C19_OverallBlendAndPenalties ==
    (call.op = "company" /\ ~call.caught) =>
        LET a == call.arg
            r == call.ret.val
            n == Len(a.suppliers)
            k == Cardinality({Get(a.suppliers[i], "country_id", None) : i \in 1..n})
        IN  /\ r.overall_supply_chain_risk
                 = Clamp100((30 * r.supplier_risk + 25 * r.route_risk + 20 * r.product_risk
                             + 15 * r.concentration_risk + 10 * r.geographic_concentration)
                            \div 100)
            /\ r.concentration_risk = Max2(0, ((1000 - n) * PT) \div 10)
            /\ r.geographic_concentration = Max2(0, (20 - k) * 5 * PT)
            /\ n >= 1000 => r.concentration_risk = 0
            /\ k >= 20 => r.geographic_concentration = 0
            /\ \A s \in SupplierItems :
                   LET more == CompanyBody(a.company, Append(a.suppliers, s),
                                           a.routes, a.products)
                   IN  ~more.exc =>
                          /\ more.val.concentration_risk <= r.concentration_risk
                          /\ more.val.geographic_concentration
                               <= r.geographic_concentration

\* C19 witness: 1001 suppliers in 21 countries, past both thresholds, where
\* both penalties are 0 and the overall score is the blend of the averages.
C19_Witness ==
    /\ call.op = "company"
    /\ ~call.caught
    /\ Len(call.arg.suppliers) = 1001
    /\ Cardinality({call.arg.suppliers[i].country_id : i \in 1..1001}) = 21
    /\ call.ret.val.concentration_risk = 0
    /\ call.ret.val.geographic_concentration = 0
    /\ call.ret.val.overall_supply_chain_risk > 0


\* C20: on the normal path the route scorer returns clamp[0,100] of
\* (0.2 * min(1, distance / 20000) + 0.15 * min(1, transit / 30)
\* + 0.1 * min(1, cost / 8000) + 0.25 * chokepoint / 100
\* + 0.3 * (origin_risk + dest_risk) / 200) * m * 100, where m multiplies the
\* whole sum, country term included, and is 1.2 for sea, 0.8 for air and 1.0
\* for land and for every other route_type.
C20_RouteFormula ==
    (call.op = "route" /\ ~call.caught) =>
        LET rd == call.arg.rd
            capped(v, ref) == Min2(FR, (v * FR) \div ref)
            d == IF Get(rd, "distance_km", 1000) >= 20000 THEN FR
                 ELSE capped(Get(rd, "distance_km", 1000), 20000)
            t == capped(Get(rd, "transit_time_days", 10), 30)
            c == IF Get(rd, "cost_per_ton", 500) >= 8000 THEN FR
                 ELSE capped(Get(rd, "cost_per_ton", 500), 8000)
            ch == Get(rd, "chokepoint_risk", 0) * (FR \div 100)
            co == ((call.arg.origin_risk + call.arg.dest_risk) * FR) \div 200
            ty == Get(rd, "route_type", "sea")
            m == IF ty = "sea" THEN 12 ELSE IF ty = "air" THEN 8 ELSE 10
            sum == (20 * d) \div 100 + (15 * t) \div 100 + (10 * c) \div 100
                   + (25 * ch) \div 100 + (30 * co) \div 100
        IN  call.ret.val = Min2(100 * PT, Max2(0, ((sum * m) \div 10) * ((100 * PT) \div FR)))

\* C20 witness: a route of a type outside {sea, air, land} whose distance
\* is above the cap, with non-zero endpoint risks, scored below the clamp:
\* the same bundle scores the same as land, more as sea and less as air.
C20_Witness ==
    /\ call.op = "route"
    /\ ~call.caught
    /\ Get(call.arg.rd, "route_type", "sea") = "rail"
    /\ Get(call.arg.rd, "distance_km", 1000) > 20000
    /\ call.arg.origin_risk + call.arg.dest_risk > 0
    /\ call.ret.val < 100 * PT
    /\ call.ret.val = Vulnerability("land")
    /\ call.ret.val < Vulnerability("sea")
    /\ call.ret.val > Vulnerability("air")


\* The imbalances the market grid holds.
Imbalances == {-50, 0, 20, 50}

\* C21: on the normal path of the product scorer, an imbalance <= 0 gives
\* the result of imbalance 0; an imbalance > 0 gives clamp[0,100] of the
\* unamplified weighted sum times 100 times (1 + imbalance); the score does
\* not decrease when the imbalance is raised and is never below the score at
\* imbalance 0.
C21_AsymmetricAmplifier ==
    (call.op = "product" /\ ~call.caught) =>
        LET pd == call.arg.pd
            mc == call.arg.mc
            im == Get(mc, "supply_demand_imbalance", 0)
            at(i) == calculate_product_risk_score(pd, Put(mc, "supply_demand_imbalance", i)).val
            base_total ==
                (Get(pd, "criticality_score", 50) * (FR \div 100) * 4) \div 10
                + ((Get(pd, "price_volatility", 20) + Get(mc, "overall_volatility", 20))
                   * (FR \div 100) * 3) \div 10
                + (Get(pd, "substitution_difficulty", 50) * (FR \div 100) * 2) \div 10
                + LogScale(Get(pd, "base_price_usd", 100), 100000) \div 10
        IN  /\ im <= 0 => call.ret.val = at(0)
            /\ im > 0 => call.ret.val
                           = Min2(100 * PT, Max2(0, (base_total * (100 + im)) \div 100))
            /\ call.ret.val >= at(0)
            /\ \A i \in Imbalances : i >= im => at(i) >= call.ret.val

\* C21 witness: a product scored with a negative imbalance, strictly below
\* the clamp, whose score is that at imbalance 0 and strictly below the one
\* at imbalance 0.5.
C21_Witness ==
    /\ call.op = "product"
    /\ ~call.caught
    /\ Get(call.arg.mc, "supply_demand_imbalance", 0) < 0
    /\ call.ret.val > 0
    /\ call.ret.val < 100 * PT
    /\ call.ret.val
         = calculate_product_risk_score(
               call.arg.pd, Put(call.arg.mc, "supply_demand_imbalance", 0)).val
    /\ call.ret.val
         < calculate_product_risk_score(
               call.arg.pd, Put(call.arg.mc, "supply_demand_imbalance", 50)).val


\* C22: the assessment of the company scorer does not depend on the company
\* descriptor: every other descriptor, with the same three lists, gives the
\* identical result.
C22_DescriptorIrrelevant ==
    call.op = "company" =>
        \A c \in Companies :
            calculate_company_supply_chain_risk(c, call.arg.suppliers, call.arg.routes,
                                                call.arg.products) = call.ret

\* C22 witness: a normal assessment of non-empty lists that is not the
\* neutral one, made for one descriptor while another descriptor exists.
C22_Witness ==
    /\ call.op = "company"
    /\ ~call.caught
    /\ call.arg.suppliers # <<>>
    /\ call.arg.products # <<>>
    /\ call.ret.val # CompanyFallback
    /\ \E c \in Companies : c # call.arg.company


\* C23: a supplier call that fails internally returns financial_risk =
\* cyber_risk = operational_risk = overall_risk = 50.0, tier_risk = 20.0 and
\* country_risk as the caller passed it; a company call that fails
\* internally returns 50.0 in each of its six entries.
C23_FallbackBreakdowns ==
    /\ (call.op = "supplier" /\ call.caught) =>
           LET r == call.ret.val
           IN  /\ ~call.ret.exc
               /\ DOMAIN r = {"financial_risk", "cyber_risk", "operational_risk",
                              "country_risk", "tier_risk", "overall_risk"}
               /\ r.financial_risk = 50 * PT
               /\ r.cyber_risk = 50 * PT
               /\ r.operational_risk = 50 * PT
               /\ r.overall_risk = 50 * PT
               /\ r.tier_risk = 20 * PT
               /\ r.country_risk = IF call.arg.country_risk = None THEN None
                                   ELSE call.arg.country_risk * PT
    /\ (call.op = "company" /\ call.caught) =>
           /\ ~call.ret.exc
           /\ DOMAIN call.ret.val
                = {"supplier_risk", "route_risk", "product_risk", "concentration_risk",
                   "geographic_concentration", "overall_supply_chain_risk"}
           /\ \A k \in DOMAIN call.ret.val : call.ret.val[k] = 50 * PT

\* C23 witness: a supplier call with country_risk 25 that failed on an unset
\* financial_health_score and returned the fixed breakdown echoing 25.
C23_Witness ==
    /\ call.op = "supplier"
    /\ call.caught
    /\ call.arg.country_risk = 25
    /\ call.arg.sd.financial_health_score = None
    /\ call.ret.val.country_risk = 25 * PT
    /\ call.ret.val.tier_risk = 20 * PT
    /\ call.ret.val.overall_risk = 50 * PT


\* C24: on an engine that retains a model, predict_risk_score builds the
\* vector in the order of the recorded feature list, with 0 for a feature
\* the mapping lacks and without the mapping's other keys, evaluates every
\* retained model on it and returns the mean of the outputs; it returns the
\* fallback 50.0 only when the evaluation of a model fails.
C24_EnsembleMean ==
    (call.op = "predict" /\ Trained(call.pre.models)) =>
        LET ms == call.pre.models
            fi == call.pre.fi
            vec == [i \in 1..Len(fi) |->
                      IF fi[i].name \in DOMAIN call.arg THEN call.arg[fi[i].name] ELSE 0]
            out == [k \in DOMAIN ms |-> ModelPredict(ms[k], vec)]
        IN  IF \A k \in DOMAIN ms : ~out[k].exc
            THEN /\ ~call.caught
                 /\ call.ret.val * Cardinality(DOMAIN ms)
                      = SumOver(DOMAIN ms, [k \in DOMAIN ms |-> out[k].val])
            ELSE /\ call.caught
                 /\ call.ret = Ret(50 * PT)

\* C24 witness: a prediction by two retained models fitted on two features,
\* from a mapping with both features at different values and an extra key,
\* that returned their mean.
C24_Witness ==
    /\ call.op = "predict"
    /\ ~call.caught
    /\ Cardinality(DOMAIN call.pre.models) = 2
    /\ Len(call.pre.fi) = 2
    /\ DOMAIN call.arg = {"political_stability", "economic_freedom", "region"}
    /\ call.ret.val # 50 * PT


\* C25: predict_risk_score and save_models, succeeding or failing, leave the
\* engine's models, feature_importance and weights as they were, so every
\* prediction after the call equals the one before it.
C25_PredictAndSaveReadOnly ==
    call.op \in {"predict", "save"} =>
        /\ Engine = call.pre
        /\ Trained(call.pre.models) => Trained(models)
        /\ \A f \in FeatureMaps :
               predict_risk_score(models, feature_importance, f)
                 = predict_risk_score(call.pre.models, call.pre.fi, f)

\* C25 witness: a save that failed on an engine that retains models and
\* still predicts with them.
C25_Witness ==
    /\ call.op = "save"
    /\ call.caught
    /\ Trained(models)
    /\ \E f \in FeatureMaps :
           predict_risk_score(models, feature_importance, f).val # 50 * PT


\* Every model of m was fitted on exactly the features fi lists, in order.
FittedOn(m, fi) == \A k \in DOMAIN m : m[k].feats = [i \in 1..Len(fi) |-> fi[i].name]

\* The models of m are those a training run of this engine stores.
OwnModels(m) == DOMAIN m \subseteq {"random_forest", "gradient_boosting"}

\* C26 (as stated): along train, save, predict and load calls, the loads
\* being of artifacts written by save_models or failing ones, every retained
\* model was fitted on exactly the feature list feature_importance gives:
\* each such call made on an engine that holds only its own models, all
\* fitted on its feature list, leaves an engine whose models are all fitted
\* on its feature list.
C26_ModelsMatchFeatureList ==
    (/\ \/ call.op \in {"train", "save", "predict"}
        \/ call.op = "load" /\ (call.caught \/ saved[call.arg].valid)
     /\ OwnModels(call.pre.models)
     /\ FittedOn(call.pre.models, call.pre.fi)) =>
        FittedOn(models, feature_importance)


\* C27: a training call that completes no fit - no schema feature column in
\* the table, no target column, a split or a fit that fails - leaves models,
\* feature_importance and weights exactly as before the call.
C27_FailedTrainKeepsState ==
    (/\ call.op = "train"
     /\ \/ call.caught
        \/ \E t \in Tables : t.id = call.arg /\ AvailableFeatures(t) = <<>>) =>
        /\ Engine = call.pre
        /\ Trained(models) <=> Trained(call.pre.models)

\* C27 witness: a training call on a table without the target column, made
\* on an engine that retains models and a feature list and keeps both.
C27_Witness ==
    /\ call.op = "train"
    /\ call.caught
    /\ call.arg = "tNoTarget"
    /\ Trained(call.pre.models)
    /\ call.pre.fi # <<>>
    /\ Engine = call.pre


\* C28 (as stated): after a training call that completed its fits, the
\* engine retains exactly the two models fitted by that call, random_forest
\* and gradient_boosting, and feature_importance lists exactly the features
\* the call used; no model retained from before remains.
C28_TrainReplacesEnsemble ==
    (call.op = "train" /\ ~call.caught) =>
        \A t \in Tables :
            (t.id = call.arg /\ AvailableFeatures(t) # <<>>) =>
                /\ DOMAIN models = {"random_forest", "gradient_boosting"}
                /\ \A k \in DOMAIN models :
                       /\ models[k].table = t.id
                       /\ models[k].feats = AvailableFeatures(t)
                /\ [i \in 1..Len(feature_importance) |-> feature_importance[i].name]
                     = AvailableFeatures(t)


\* The bundle d with annual_revenue set to rev, or absent for rev = None.
WithRevenue(d, rev) ==
    IF rev = None THEN [k \in DOMAIN d \ {"annual_revenue"} |-> d[k]]
    ELSE Put(d, "annual_revenue", rev)

\* C29: the supplier breakdown does not depend on annual_revenue: with the
\* rest of the bundle and country_risk unchanged, every non-negative revenue,
\* and the attribute left out, give the identical breakdown.
C29_RevenueIrrelevant ==
    (/\ call.op = "supplier"
     /\ Get(call.arg.sd, "annual_revenue", 0) >= 0) =>
        \A rev \in {None, 0, 1000000, 50000000, 2000000000} :
            calculate_supplier_risk_score(WithRevenue(call.arg.sd, rev),
                                          call.arg.country_risk) = call.ret

\* C29 witness: a normal call for a supplier with revenue 0 whose breakdown
\* is not the fixed fallback one.
C29_Witness ==
    /\ call.op = "supplier"
    /\ ~call.caught
    /\ "annual_revenue" \in DOMAIN call.arg.sd
    /\ call.arg.sd.annual_revenue = 0
    /\ call.ret.val.overall_risk # 50 * PT
    /\ call.ret.val.tier_risk # 20 * PT


\* C30 (as stated): the distinct-country count behind
\* geographic_concentration counts only real country_id values, so a
\* supplier without a country_id adds nothing to it and appending such a
\* supplier never lowers geographic_concentration.
C30_OnlyRealCountriesCounted ==
    (call.op = "company" /\ ~call.caught) =>
        LET a == call.arg
            real == {Get(a.suppliers[i], "country_id", None) : i \in 1..Len(a.suppliers)}
                    \ {None}
            more == calculate_company_supply_chain_risk(
                        a.company, Append(a.suppliers, [overall_risk_score |-> 30]),
                        a.routes, a.products)
        IN  /\ call.ret.val.geographic_concentration
                 = Max2(0, (20 - Cardinality(real)) * 5 * PT)
            /\ more.val.geographic_concentration >= call.ret.val.geographic_concentration

====
